---- MODULE Spec2Model ----
(***************************************************************************)
(* A model of redtime (src/redtime.py): the `log` command's per-day loop,  *)
(* the click parameter types that resolve project / issue / time-entry /   *)
(* activity tokens, and the `complete` command.                            *)
(*                                                                         *)
(* Conventions                                                             *)
(*   - Python's None is the empty sequence, a present value x is <<x>>.    *)
(*   - A calendar day is its proleptic ordinal (date.toordinal()): day 1   *)
(*     is a Monday, as in Python.                                          *)
(*   - Hours are whole numbers (the code uses floats; the comparison and   *)
(*     the sum are the same on the values used here).                      *)
(*   - A command-line token is a sequence of one-character strings.        *)
(***************************************************************************)
EXTENDS Integers, Sequences, FiniteSets, TLC

VARIABLES
  \* ---- the log command (src/redtime.py:266-301) ----
  date,            \* --date
  until_date,      \* --until-date, None or <<day>>
  weekdays,        \* --weekdays ("allow weekend logging")
  hours,           \* the hours argument
  max_day_hours,   \* --max-day-hours
  entry_date,      \* the generator's local `date` (date_range)
  logged,          \* the tracker: hours of the current user per day
  yielded,         \* history: the days date_range has yielded, in order
  events,          \* history: remote calls and skips, in order
  lpc,             \* position of the log command
  \* ---- exact resolution: ParamType.convert (src/redtime.py:40-96) ----
  rkind,           \* the parameter type: project, issue, time_entry, activity
  rtoken,          \* the value click hands to convert
  rctx,            \* what ctx.params holds of project and issue
  remote_ids,      \* ids of the tracker's resources of kind rkind
  global_activities,   \* redmine.enumeration time_entry_activities
  project_activities,  \* time_entry_activities of the project in ctx
  rresult,         \* what convert returned or raised
  rpc,             \* position of the resolution
  \* ---- the complete command (src/redtime.py:503-625) ----
  args,            \* the args argument: the typed tokens, subcommand first
  options,         \* --options
  nth,             \* --nth, None or <<n>>
  fileCache,       \* the keys of _issues fresh in the file cache
  remote_calls,    \* history: the calls made to the tracker, in order
  outcome,         \* how the command ended and what it printed
  printed,         \* the members of a set result in the order printed
  cpc,             \* position of the complete command
  \* ---- one call of _id_match (src/redtime.py:225-236) ----
  id_resources,    \* the argument resource_list
  id_prefix,       \* the argument num_prefix, None or <<token>>
  id_result,       \* the list returned
  id_pc            \* position of the call

logVars == <<date, until_date, weekdays, hours, max_day_hours, entry_date,
             logged, yielded, events, lpc>>

resVars == <<rkind, rtoken, rctx, remote_ids, global_activities,
             project_activities, rresult, rpc>>

compVars == <<args, options, nth, fileCache, remote_calls, outcome, printed, cpc>>

idVars == <<id_resources, id_prefix, id_result, id_pc>>

vars == <<logVars, resVars, compVars, idVars>>

notLog == <<resVars, compVars, idVars>>
notRes == <<logVars, compVars, idVars>>
notComp == <<logVars, resVars, idVars>>
notId == <<logVars, resVars, compVars>>

None == <<>>
Some(x) == <<x>>

(***************************************************************************)
(* Bounds of the model.                                                    *)
(***************************************************************************)
MaxDay == 8
BusySpan == 2

Days == 1..MaxDay
HoursChoices == {2, 4}
CapChoices == {6, 8}
LoggedChoices == {0, 4, 6}

(***************************************************************************)
(* Tokens and the Python string operations the parameter types use.        *)
(***************************************************************************)
MaxTokenLen == 3
MaxId == 2

Digits == {"0", "1", "2", "3", "4", "5", "6", "7", "8", "9"}
DigitValue(c) ==
  CASE c = "0" -> 0 [] c = "1" -> 1 [] c = "2" -> 2 [] c = "3" -> 3
    [] c = "4" -> 4 [] c = "5" -> 5 [] c = "6" -> 6 [] c = "7" -> 7
    [] c = "8" -> 8 [] c = "9" -> 9

\* The characters tokens are typed from.
Chars == {"0", "1", ":", "d", "D"}
Tokens == UNION {[1..n -> Chars] : n \in 0..MaxTokenLen}

\* "des", "Development", "Design"
Des == <<"d", "e", "s">>
Development == <<"D", "e", "v", "e", "l", "o", "p", "m", "e", "n", "t">>
Design == <<"D", "e", "s", "i", "g", "n">>

\* int(s) succeeds: a non-empty run of decimal digits (signs, blanks and
\* underscores are not among Chars).
IsInt(s) == Len(s) > 0 /\ \A i \in 1..Len(s) : s[i] \in Digits

RECURSIVE IntValue(_)
IntValue(s) ==
  IF s = <<>> THEN 0
  ELSE IntValue(SubSeq(s, 1, Len(s) - 1)) * 10 + DigitValue(s[Len(s)])

SeqMax(S) == CHOOSE m \in S : \A x \in S : x <= m

\* value.split(':')[-1]
LastSegment_AfterFirstColon(s) ==
  LET colons == {i \in 1..Len(s) : s[i] = ":"} IN
  IF colons = {} THEN s
  ELSE SubSeq(s, (CHOOSE m \in colons : \A x \in colons : m <= x) + 1, Len(s))
LastSegment(s) ==
  LET colons == {i \in 1..Len(s) : s[i] = ":"} IN
  IF colons = {} THEN s ELSE SubSeq(s, SeqMax(colons) + 1, Len(s))

\* str.lower()
LowerChar(c) == IF c = "D" THEN "d" ELSE c
Lower_Identity(s) == s
Lower(s) == IF s = <<>> THEN <<>> ELSE [i \in 1..Len(s) |-> LowerChar(s[i])]

(***************************************************************************)
(* What convert hands back: a resource, None, a list, a click failure      *)
(* (self.fail) or an exception nothing catches.                            *)
(***************************************************************************)
Res(tag, id, items, msg) == [tag |-> tag, id |-> id, items |-> items, msg |-> msg]
Resource(kind, id) == Res(kind, id, <<>>, "")
ActivityRes(a) == Res("activity", a.id, <<a>>, "")
ListRes(items) == Res("list", 0, items, "")
NoneRes == Res("none", 0, <<>>, "")
Fail(msg) == Res("fail", 0, <<>>, msg)
Raise(exc) == Res("raise", 0, <<>>, exc)

(***************************************************************************)
(* ProjectType / IssueType / TimeEntryType .convert (lines 43-76).         *)
(***************************************************************************)
KindLabel(kind) ==
  CASE kind = "project" -> "Project"
    [] kind = "issue" -> "Issue"
    [] kind = "time_entry" -> "Time entry"

ConvertById(kind, value, ids) ==
  LET seg == LastSegment(value) IN
  IF ~IsInt(seg) THEN Fail(KindLabel(kind) \o " id is not a number")
  ELSE IF IntValue(seg) = 0 THEN NoneRes
  ELSE IF IntValue(seg) \in ids THEN Resource(kind, IntValue(seg))
  ELSE Fail(KindLabel(kind) \o " not found")

(***************************************************************************)
(* _with_activities (lines 185-205): both indexes keep the last activity   *)
(* of a key; `if name:` and `elif id:` test truthiness.                    *)
(***************************************************************************)
ByName(activities, key) ==
  LET hits == {i \in 1..Len(activities) : Lower(activities[i].name) = key} IN
  IF hits = {} THEN Raise("KeyError") ELSE ActivityRes(activities[SeqMax(hits)])

ById(activities, key) ==
  LET hits == {i \in 1..Len(activities) : activities[i].id = key} IN
  IF hits = {} THEN Raise("KeyError") ELSE ActivityRes(activities[SeqMax(hits)])

WithActivities(activities, name, id) ==
  IF name # None /\ name[1] # <<>> THEN ByName(activities, name[1])
  ELSE IF id # None /\ id[1] # 0 THEN ById(activities, id[1])
  ELSE ListRes(activities)

(***************************************************************************)
(* ActivityType.convert (lines 82-96).                                     *)
(***************************************************************************)
Ctx(hp, p, hi, i) == [has_project |-> hp, project |-> p, has_issue |-> hi, issue |-> i]

ConvertActivity(value, ctx, scoped, global) ==
  IF ctx.has_project /\ ctx.project = None THEN Raise("AttributeError")
  ELSE IF ~ctx.has_project /\ ctx.has_issue /\ ctx.issue = None
       THEN Raise("AttributeError")
  ELSE
    LET activities == IF ctx.has_project \/ ctx.has_issue THEN scoped ELSE global
        seg == LastSegment(value)
        found == IF IsInt(seg)
                 THEN WithActivities(activities, None, Some(IntValue(seg)))
                 ELSE WithActivities(activities, Some(Lower(value)), None)
    IN IF found = Raise("KeyError") THEN Fail("Activity not found") ELSE found

Convert(kind, value, ctx, ids, scoped, global) ==
  IF kind = "activity" THEN ConvertActivity(value, ctx, scoped, global)
  ELSE ConvertById(kind, value, ids)

(***************************************************************************)
(* The inputs of one resolution.                                           *)
(***************************************************************************)
Kinds == {"project", "issue", "time_entry", "activity"}
Act(id, name) == [id |-> id, name |-> name]
ActivityNames == {<<"d">>, <<"D">>}
ActivityIds == {1, 2}
ActivityPool == {Act(i, n) : i \in ActivityIds, n \in ActivityNames}
ActivityLists ==
  {<<>>} \cup {<<a>> : a \in ActivityPool}
         \cup {p \in ActivityPool \X ActivityPool : p[1].id # p[2].id}
\* A project's time_entry_activities: some of the tracker's activities.
SubLists(list) ==
  {SelectSeq(list, LAMBDA a : a.id \in S) : S \in SUBSET ActivityIds}
ScenarioActivities == <<Act(1, Development), Act(2, Design)>>

NoCtx == Ctx(FALSE, None, FALSE, None)
\* log hands convert a ctx that holds project (None for token 0); log_entry
\* holds project and issue only when their option came before --activity.
Ctxs ==
  {NoCtx, Ctx(TRUE, Some(1), FALSE, None), Ctx(TRUE, None, FALSE, None),
   Ctx(FALSE, None, TRUE, Some(1)), Ctx(FALSE, None, TRUE, None),
   Ctx(TRUE, Some(1), TRUE, None)}



(***************************************************************************)
(* The complete command (lines 503-625).                                   *)
(*                                                                         *)
(* The command table: cli.commands, each command's Arguments in declared   *)
(* order (name, type.name) and its Options (opts, nargs, secondary_opts).  *)
(***************************************************************************)
T_log == <<"l", "o", "g">>
T_projects == <<"p", "r", "o", "j", "e", "c", "t", "s">>
T_log_entry == <<"l", "o", "g", "_", "e", "n", "t", "r", "y">>
T_issues == <<"i", "s", "s", "u", "e", "s">>
T_activities == <<"a", "c", "t", "i", "v", "i", "t", "i", "e", "s">>
T_configure == <<"c", "o", "n", "f", "i", "g", "u", "r", "e">>
T_overview == <<"o", "v", "e", "r", "v", "i", "e", "w">>
T_complete == <<"c", "o", "m", "p", "l", "e", "t", "e">>

CommandNames ==
  {T_log, T_projects, T_log_entry, T_issues, T_activities, T_configure,
   T_overview, T_complete}

Param(name, type) == [name |-> name, type |-> type]
Params(cmd) ==
  CASE cmd = T_log ->
         <<Param("project", "project"), Param("issue", "issue"),
           Param("activity", "activity"), Param("hours", "float"),
           Param("description", "text")>>
    [] cmd = T_projects -> <<Param("name", "text")>>
    [] cmd = T_log_entry -> <<Param("time_entries", "time_entry")>>
    [] cmd = T_issues -> <<Param("subject", "text")>>
    [] cmd = T_activities -> <<Param("name", "text")>>
    [] cmd = T_complete -> <<Param("args", "text")>>
    [] OTHER -> <<>>

Opt(opts, nargs, secondary) == [opts |-> opts, nargs |-> nargs, secondary |-> secondary]
Options(cmd) ==
  CASE cmd = T_log ->
         {Opt({<<"-", "-", "y", "e", "s", "t", "e", "r", "d", "a", "y">>, <<"-", "y">>}, 1, FALSE),
          Opt({<<"-", "-", "d", "a", "t", "e">>}, 1, FALSE),
          Opt({<<"-", "-", "u", "n", "t", "i", "l", "-", "d", "a", "t", "e">>}, 1, FALSE),
          Opt({<<"-", "-", "w", "e", "e", "k", "d", "a", "y", "s">>}, 1, FALSE),
          Opt({<<"-", "-", "m", "a", "x", "-", "d", "a", "y", "-", "h", "o", "u", "r", "s">>}, 1, FALSE)}
    [] cmd = T_projects ->
         {Opt({<<"-", "-", "n", "a", "m", "e", "-", "i", "d">>}, 1, FALSE),
          Opt({<<"-", "-", "i", "d">>}, 1, FALSE),
          Opt({<<"-", "-", "n", "a", "m", "e">>}, 1, FALSE),
          Opt({<<"-", "-", "o", "n", "e">>}, 1, FALSE),
          Opt({<<"-", "-", "t", "h", "r", "e", "s", "h", "o", "l", "d">>}, 1, FALSE)}
    [] cmd = T_log_entry ->
         {Opt({<<"-", "-", "r", "m">>}, 1, FALSE),
          Opt({<<"-", "-", "p", "r", "o", "j", "e", "c", "t">>}, 1, FALSE),
          Opt({<<"-", "-", "i", "s", "s", "u", "e">>}, 1, FALSE),
          Opt({<<"-", "-", "a", "c", "t", "i", "v", "i", "t", "y">>}, 1, FALSE)}
    [] cmd = T_issues ->
         {Opt({<<"-", "-", "s", "u", "b", "j", "e", "c", "t", "-", "i", "d">>}, 1, FALSE),
          Opt({<<"-", "-", "i", "d">>}, 1, FALSE),
          Opt({<<"-", "-", "s", "u", "b", "j", "e", "c", "t">>}, 1, FALSE),
          Opt({<<"-", "-", "o", "n", "e">>}, 1, FALSE)}
    [] cmd = T_activities ->
         {Opt({<<"-", "-", "n", "a", "m", "e", "-", "i", "d">>}, 1, FALSE),
          Opt({<<"-", "-", "i", "d">>}, 1, FALSE),
          Opt({<<"-", "-", "n", "a", "m", "e">>}, 1, FALSE)}
    [] cmd = T_configure ->
         {Opt({<<"-", "-", "a", "p", "i", "-", "u", "r", "l">>}, 1, FALSE),
          Opt({<<"-", "-", "a", "p", "i", "-", "k", "e", "y">>}, 1, FALSE),
          Opt({<<"-", "-", "u", "s", "e", "r", "n", "a", "m", "e">>}, 1, FALSE),
          Opt({<<"-", "-", "p", "a", "s", "s", "w", "o", "r", "d">>}, 1, FALSE),
          Opt({<<"-", "-", "a", "s", "k", "-", "p", "a", "s", "s", "w", "o", "r", "d">>}, 1, FALSE)}
    [] cmd = T_overview ->
         {Opt({<<"-", "-", "f", "r", "o", "m", "-", "d", "a", "t", "e">>}, 1, FALSE),
          Opt({<<"-", "-", "t", "o", "-", "d", "a", "t", "e">>}, 1, FALSE),
          Opt({<<"-", "-", "l", "i", "m", "i", "t">>}, 1, FALSE),
          Opt({<<"-", "-", "o", "f", "f", "s", "e", "t">>}, 1, FALSE)}
    [] cmd = T_complete ->
         {Opt({<<"-", "-", "o", "p", "t", "i", "o", "n", "s">>}, 1, FALSE),
          Opt({<<"-", "-", "n", "t", "h">>}, 1, FALSE)}
    [] OTHER -> {}

\* A dict key is a str or a tuple of str; the two never compare equal.
StrKey(s) == [type |-> "str", str |-> s, tuple |-> <<>>]
TupleKey(t) == [type |-> "tuple", str |-> <<>>, tuple |-> t]

\* cmd_options (line 521): option string -> Option
OptionNargs(cmd, key) ==
  LET hits == {o \in Options(cmd) : key \in {StrKey(n) : n \in o.opts}} IN
  IF hits = {} THEN None ELSE Some((CHOOSE o \in hits : TRUE).nargs)

(***************************************************************************)
(* The tracker as completion sees it.                                      *)
(***************************************************************************)
Obj(id, name, src) == [id |-> id, name |-> name, src |-> src]
Item(id, name) == [id |-> id, name |-> name]
ProjectsOnTracker == <<Item(1, <<"d">>), Item(2, <<"D">>)>>
ProjectIds == {ProjectsOnTracker[i].id : i \in 1..Len(ProjectsOnTracker)}
IssuesOf(pid) ==
  CASE pid = 1 -> <<Item(12, <<"d">>), Item(5, <<"D", "d">>)>>
    [] pid = 2 -> <<Item(120, <<"d">>)>>
    [] OTHER -> <<>>
ActivitiesOf(pid) ==
  CASE pid = 1 -> <<Act(1, <<"D">>), Act(2, <<"d">>)>>
    [] pid = 2 -> <<Act(2, <<"d">>)>>
    [] OTHER -> <<>>

(***************************************************************************)
(* _issues behind @filecache (lines 27, 382-391): the cache key is the     *)
(* call as made, its keyword arguments as passed.                          *)
(***************************************************************************)
IssuesKey(kw, subject, project_id) ==
  [kw |-> kw, subject |-> subject, project_id |-> project_id]

Contains(text, part) ==
  \E i \in 1..(Len(text) - Len(part) + 1) : SubSeq(text, i, i + Len(part) - 1) = part

\* redmine.issue.filter(status_id='open', project_id=..., subject='~...')
RemoteIssues(key) ==
  LET all == IF key.project_id = None THEN <<>> ELSE IssuesOf(key.project_id[1]) IN
  IF key.subject = None \/ key.subject = Some(<<>>) THEN all
  ELSE SelectSeq(all, LAMBDA it : Contains(Lower(it.name), Lower(key.subject[1])))

CacheHit(cache, key) == key \in cache

\* One call of the cached _issues: the data, the cache afterwards, and the
\* remote calls it made.
CachedIssues(cache, key) ==
  IF CacheHit(cache, key)
  THEN [data |-> RemoteIssues(key), cache |-> cache, calls |-> <<>>]
  ELSE [data |-> RemoteIssues(key), cache |-> cache \cup {key},
        calls |-> <<[op |-> "issue.filter", key |-> key]>>]

NoKey == IssuesKey({}, None, None)
Call(op) == [op |-> op, key |-> NoKey]

(***************************************************************************)
(* _id_match (lines 225-236).                                              *)
(***************************************************************************)
RECURSIVE ToStr(_)
ToStr(n) ==
  LET digit == CHOOSE c \in Digits : DigitValue(c) = n % 10 IN
  IF n < 10 THEN <<digit>> ELSE Append(ToStr(n \div 10), digit)

StartsWith_Exact(text, prefix) == text = prefix
StartsWith(text, prefix) ==
  Len(prefix) <= Len(text) /\ SubSeq(text, 1, Len(prefix)) = prefix

RECURSIVE SortedById(_)
SortedById(items) ==
  IF items = <<>> THEN <<>>
  ELSE LET k == CHOOSE i \in 1..Len(items) :
                  \A j \in 1..Len(items) :
                     items[i].id < items[j].id \/ (items[i].id = items[j].id /\ i <= j)
       IN <<items[k]>> \o SortedById(SubSeq(items, 1, k - 1) \o SubSeq(items, k + 1, Len(items)))

IdMatch(resource_list, num_prefix) ==
  IF num_prefix = None THEN <<>>
  ELSE IF ~IsInt(num_prefix[1]) THEN <<>>
  ELSE SortedById(SelectSeq(resource_list,
         LAMBDA res : StartsWith(ToStr(res.id), ToStr(IntValue(num_prefix[1])))))

\* _projects(name, projects=...) (lines 355-363).  fw_process.extract is not
\* modelled by its scores: the stand-in keeps the projects whose name
\* contains the text.
ProjectsByName(name, projects) ==
  IF name = None \/ name = Some(<<>>) THEN projects
  ELSE SelectSeq(projects, LAMBDA it : Contains(Lower(it.name), Lower(name[1])))

(***************************************************************************)
(* The replay of the typed tokens (lines 602-613).                         *)
(***************************************************************************)
\* args[1:stop] in Python, as the positions 2..stop of the 1-based tuple.
PySliceStop(len, stop) ==
  IF stop < 0 THEN (IF len + stop < 0 THEN 0 ELSE len + stop)
  ELSE (IF stop > len THEN len ELSE stop)

ReplayArgs(a, n) ==
  LET stop == PySliceStop(Len(a), n - 1) IN
  IF stop <= 1 THEN <<>> ELSE SubSeq(a, 2, stop)

StartsWithDash(arg) == Len(arg) > 0 /\ arg[1] = "-"

\* line 609 indexes cmd_options with args, the whole tuple.
OptionKey(a, arg) == TupleKey(a)

EmptyMap == [x \in {} |-> <<>>]
MapGet(m, k) == IF k \in DOMAIN m THEN Some(m[k]) ELSE None

ReplayStart(n) ==
  [exc |-> "", skip |-> 0, nth |-> n, nth_param |-> 0, arg_map |-> EmptyMap]

ReplayStep(st, cmd, a, arg) ==
  IF st.exc # "" THEN st
  ELSE IF st.skip > 0 THEN [st EXCEPT !.skip = @ - 1]
  ELSE IF StartsWithDash(arg)
  THEN LET nargs == OptionNargs(cmd, OptionKey(a, arg)) IN
       IF nargs = None THEN [st EXCEPT !.exc = "KeyError"]
       ELSE [st EXCEPT !.skip = nargs[1], !.nth = @ - nargs[1]]
  ELSE IF st.nth_param >= Len(Params(cmd)) THEN [st EXCEPT !.exc = "IndexError"]
  ELSE [st EXCEPT !.arg_map = (Params(cmd)[st.nth_param + 1].name :> arg) @@ @,
                  !.nth_param = @ + 1]

RECURSIVE ReplayLoop(_, _, _, _)
ReplayLoop(st, cmd, a, rest) ==
  IF rest = <<>> THEN st
  ELSE ReplayLoop(ReplayStep(st, cmd, a, Head(rest)), cmd, a, Tail(rest))

Replay(cmd, a, n) == ReplayLoop(ReplayStart(n), cmd, a, ReplayArgs(a, n))


(***************************************************************************)
(* How complete ends: it prints result (line 625), exits with status 1     *)
(* (lines 542, 617, 623), returns without output (lines 512, 517) or lets  *)
(* an exception escape.  result is a list of lines, or the lines of a set  *)
(* of objects, whose order the set decides.                                *)
(***************************************************************************)
Outcome(tag, exc, param, lines, objs) ==
  [tag |-> tag, exc |-> exc, param |-> param, lines |-> lines, objs |-> objs]
NoOutcome == Outcome("none", "", "", <<>>, {})
Returned == Outcome("return", "", "", <<>>, {})
Exit1(param) == Outcome("exit1", "", param, <<>>, {})
Raised(exc, param) == Outcome("raise", exc, param, <<>>, {})
PrintLines(param, lines) == Outcome("print", "", param, lines, {})
PrintObjs(param, objs) == Outcome("print", "", param, <<>>, objs)

Line(text, desc) == [text |-> text, desc |-> desc]
Ran(out, cache, calls) == [outcome |-> out, cache |-> cache, calls |-> calls]

Objs(items, src) == {Obj(items[i].id, items[i].name, src) : i \in 1..Len(items)}

\* cli.commands in the order the commands are declared (line 513)
CommandList ==
  <<T_log, T_projects, T_log_entry, T_issues, T_activities, T_configure,
    T_overview, T_complete>>

(***************************************************************************)
(* _complete_param (lines 548-594).                                        *)
(***************************************************************************)
ParamNames(cmd) == {Params(cmd)[i].name : i \in 1..Len(Params(cmd))}

\* lines 557-560: every exception of the conversion is swallowed and leaves
\* the local `project` unbound.
Unbound(calls) == [bound |-> FALSE, val |-> None, calls |-> calls]
Bound(val, calls) == [bound |-> TRUE, val |-> val, calls |-> calls]
ProjectBinding(cmd, value_map) ==
  LET v == MapGet(value_map, "project") IN
  IF "project" \notin ParamNames(cmd) THEN Unbound(<<>>)
  ELSE IF v = None THEN Unbound(<<>>)
  ELSE LET seg == LastSegment(v[1])
           r == ConvertById("project", v[1], ProjectIds)
           calls == IF IsInt(seg) /\ IntValue(seg) # 0
                    THEN <<Call("project.get")>> ELSE <<>>
       IN IF r.tag = "project" THEN Bound(Some(r.id), calls)
          ELSE IF r.tag = "none" THEN Bound(None, calls)
          ELSE Unbound(calls)

CompleteProject(param, value, cache, calls) ==
  LET projects == ProjectsOnTracker
      result_id == IdMatch(projects, value)
      result_name == ProjectsByName(value, projects)
  IN Ran(PrintObjs(param.name, Objs(result_id, "projects") \cup Objs(result_name, "projects")),
         cache, calls \o <<Call("project.all")>>)

CompleteIssue(param, value, project, cache, calls) ==
  IF ~project.bound THEN Ran(Raised("UnboundLocalError", param.name), cache, calls)
  ELSE IF project.val = None THEN Ran(Raised("AttributeError", param.name), cache, calls)
  ELSE LET by_project == CachedIssues(cache, IssuesKey({"project_id"}, None, project.val))
           by_subject == CachedIssues(by_project.cache,
                           IssuesKey({"subject", "project_id"}, value, project.val))
           result_id == IdMatch(by_project.data, value)
           result_name == by_subject.data
       IN Ran(PrintObjs(param.name,
                Objs(result_id, "_issues(project_id)")
                  \cup Objs(result_name, "_issues(subject, project_id)")),
              by_subject.cache, calls \o by_project.calls \o by_subject.calls)

CompleteActivity(param, project, cache, calls) ==
  IF ~project.bound THEN Ran(Raised("UnboundLocalError", param.name), cache, calls)
  ELSE IF project.val = None THEN Ran(Raised("AttributeError", param.name), cache, calls)
  ELSE Ran(PrintObjs(param.name, Objs(ActivitiesOf(project.val[1]), "Activity")),
           cache, calls)

HoursLines ==
  <<Line(<<"2">>, "hours"), Line(<<"4">>, "hours"), Line(<<"6">>, "hours"),
    Line(<<"8">>, "hours")>>

CompleteParam(cmd, param, value_map, cache) ==
  LET value == MapGet(value_map, param.name)
      project == ProjectBinding(cmd, value_map)
  IN CASE param.type = "project" -> CompleteProject(param, value, cache, project.calls)
       [] param.type = "issue" -> CompleteIssue(param, value, project, cache, project.calls)
       [] param.type = "activity" -> CompleteActivity(param, project, cache, project.calls)
       [] param.type \notin {"project", "issue", "activity"} /\ param.name = "hours" ->
            Ran(PrintLines(param.name, HoursLines), cache, project.calls)
       [] param.type \notin {"project", "issue", "activity"} /\ param.name = "description" ->
            Ran(PrintLines(param.name, <<Line(<<".", ".", ".">>, "description")>>),
                cache, project.calls)
       [] OTHER -> Ran(Exit1(param.name), cache, project.calls)

(***************************************************************************)
(* complete (lines 508-625).                                               *)
(***************************************************************************)
OptionLines(cmd) == {Line(n, "option") : n \in UNION {o.opts : o \in Options(cmd)}}

RunComplete(a, opts, n, cache) ==
  IF a = <<>>
  THEN IF opts THEN Ran(Returned, cache, <<>>)
       ELSE Ran(PrintLines("", [i \in 1..Len(CommandList) |-> Line(CommandList[i], "command")]),
                cache, <<>>)
  ELSE LET cmd == a[1] IN
       IF cmd \notin CommandNames THEN Ran(Returned, cache, <<>>)
       ELSE IF opts
       THEN IF \E o \in Options(cmd) : o.secondary
            THEN Ran(Raised("NotImplementedError", ""), cache, <<>>)
            ELSE IF Options(cmd) = {} THEN Ran(Exit1(""), cache, <<>>)
            ELSE Ran(Outcome("print", "", "", <<>>, OptionLines(cmd)), cache, <<>>)
       ELSE IF n = None THEN Ran(Exit1(""), cache, <<>>)
       ELSE LET st == Replay(cmd, a, n[1]) IN
            IF st.exc # "" THEN Ran(Raised(st.exc, ""), cache, <<>>)
            ELSE IF st.nth - 2 < 0 \/ st.nth - 2 >= Len(Params(cmd))
            THEN Ran(Exit1(""), cache, <<>>)
            ELSE CompleteParam(cmd, Params(cmd)[st.nth - 2 + 1], st.arg_map, cache)

(***************************************************************************)
(* A command that is not the one running leaves its variables idle.        *)
(***************************************************************************)
ResolveIdle ==
  /\ rkind = "project" /\ rtoken = <<>> /\ rctx = NoCtx /\ remote_ids = {}
  /\ global_activities = <<>> /\ project_activities = <<>>
  /\ rresult = NoneRes /\ rpc = "idle"

LogIdle ==
  /\ date = 1 /\ until_date = None /\ weekdays = FALSE /\ hours = 0
  /\ max_day_hours = 0 /\ entry_date = 1 /\ logged = [d \in Days |-> 0]
  /\ yielded = <<>> /\ events = <<>> /\ lpc = "idle"

CompleteIdle ==
  /\ args = <<>> /\ options = FALSE /\ nth = None /\ fileCache = {}
  /\ remote_calls = <<>> /\ outcome = NoOutcome /\ printed = <<>>
  /\ cpc = "idle"

IdMatchIdle ==
  /\ id_resources = <<>> /\ id_prefix = None /\ id_result = <<>>
  /\ id_pc = "idle"

(***************************************************************************)
(* datetime.date.isoweekday(): Monday is 1, Sunday is 7.                   *)
(***************************************************************************)
isoweekday(d) == ((d - 1) % 7) + 1

(***************************************************************************)
(* date_range (lines 160-167): `if end is None: end = start`, then         *)
(* `while date <= end: yield date; date += 1 day`.                         *)
(***************************************************************************)
DateRangeEnd(start, end) == IF end = None THEN start ELSE end[1]

DateRangeContinues_Exclusive(d, end) == d < end
DateRangeContinues(d, end) == d <= end

(***************************************************************************)
(* log, line 269: skip_weekdays = not weekdays and until_date is not None  *)
(***************************************************************************)
skip_weekdays_IgnoresUntil(w, u) == ~w
skip_weekdays(w, u) == ~w /\ u # None

(***************************************************************************)
(* log, line 283: if total_hours > max_day_hours                           *)
(***************************************************************************)
OverCap_Geq(total_hours, cap) == total_hours >= cap
OverCap(total_hours, cap) == total_hours > cap

Event(op, day, seen) == [op |-> op, day |-> day, seen |-> seen]

\* The tracker before the command runs: the user may already have hours on
\* the first BusySpan days from the start date (days before it are never read).
InitialLogged(start) ==
  LET window == {d \in Days : start <= d /\ d < start + BusySpan} IN
  {[d \in Days |-> IF d \in window THEN g[d] ELSE 0] :
     g \in [window -> LoggedChoices]}

InitLog ==
  /\ date \in Days
  /\ until_date \in {None} \cup {Some(d) : d \in Days}
  /\ weekdays \in BOOLEAN
  /\ hours \in HoursChoices
  /\ max_day_hours \in CapChoices
  /\ logged \in InitialLogged(date)
  /\ entry_date = date
  /\ yielded = <<>>
  /\ events = <<>>
  /\ lpc = "iter"
  /\ ResolveIdle /\ CompleteIdle /\ IdMatchIdle

logInputs == <<date, until_date, weekdays, hours, max_day_hours>>

(***************************************************************************)
(* The generator is exhausted: the for loop ends and log returns.          *)
(***************************************************************************)
LogRangeEnd ==
  /\ lpc = "iter"
  /\ ~DateRangeContinues(entry_date, DateRangeEnd(date, until_date))
  /\ lpc' = "done"
  /\ UNCHANGED <<notLog, logInputs, entry_date, logged, yielded, events>>

(***************************************************************************)
(* The generator yields entry_date; lines 272-273 skip a weekend day.      *)
(***************************************************************************)
LogSkipWeekend ==
  /\ lpc = "iter"
  /\ DateRangeContinues(entry_date, DateRangeEnd(date, until_date))
  /\ skip_weekdays(weekdays, until_date) /\ isoweekday(entry_date) > 5
  /\ yielded' = Append(yielded, entry_date)
  /\ events' = Append(events, Event("skip_weekend", entry_date, 0))
  /\ entry_date' = entry_date + 1
  /\ UNCHANGED <<notLog, logInputs, logged, lpc>>

LogEnterDay ==
  /\ lpc = "iter"
  /\ DateRangeContinues(entry_date, DateRangeEnd(date, until_date))
  /\ ~(skip_weekdays(weekdays, until_date) /\ isoweekday(entry_date) > 5)
  /\ yielded' = Append(yielded, entry_date)
  /\ lpc' = "query"
  /\ UNCHANGED <<notLog, logInputs, entry_date, logged, events>>

(***************************************************************************)
(* Lines 275-288: the day's entries are fetched and summed; over the cap   *)
(* the day is skipped (`continue`).                                        *)
(***************************************************************************)
LogQuerySkip ==
  /\ lpc = "query"
  /\ OverCap(hours + logged[entry_date], max_day_hours)
  /\ events' = events \o <<Event("query", entry_date, logged[entry_date]),
                           Event("skip_cap", entry_date, logged[entry_date])>>
  /\ entry_date' = entry_date + 1
  /\ lpc' = "iter"
  /\ UNCHANGED <<notLog, logInputs, logged, yielded>>

LogQueryOk ==
  /\ lpc = "query"
  /\ ~OverCap(hours + logged[entry_date], max_day_hours)
  /\ events' = Append(events, Event("query", entry_date, logged[entry_date]))
  /\ lpc' = "create"
  /\ UNCHANGED <<notLog, logInputs, entry_date, logged, yielded>>

(***************************************************************************)
(* The query raises: nothing in log catches it, the command ends           *)
(* (lines 654-658 catch ValidationError only to print and exit 1).         *)
(***************************************************************************)
LogQueryFail ==
  /\ lpc = "query"
  /\ events' = Append(events, Event("query_fail", entry_date, 0))
  /\ lpc' = "failed"
  /\ UNCHANGED <<notLog, logInputs, entry_date, logged, yielded>>

(***************************************************************************)
(* Lines 290-301: the entry is created on the tracker.                     *)
(***************************************************************************)
LogCreateOk ==
  /\ lpc = "create"
  /\ logged' = [logged EXCEPT ![entry_date] = @ + hours]
  /\ events' = Append(events, Event("create", entry_date, logged[entry_date]))
  /\ entry_date' = entry_date + 1
  /\ lpc' = "iter"
  /\ UNCHANGED <<notLog, logInputs, yielded>>

LogCreateFail_Resume ==
  /\ lpc = "create"
  /\ events' = Append(events, Event("create_fail", entry_date, logged[entry_date]))
  /\ entry_date' = entry_date + 1
  /\ lpc' = "iter"
  /\ UNCHANGED <<notLog, logInputs, logged, yielded>>

LogCreateFail ==
  /\ lpc = "create"
  /\ events' = Append(events, Event("create_fail", entry_date, logged[entry_date]))
  /\ lpc' = "failed"
  /\ UNCHANGED <<notLog, logInputs, entry_date, logged, yielded>>

NextLog ==
  \/ LogRangeEnd
  \/ LogSkipWeekend
  \/ LogEnterDay
  \/ LogQuerySkip
  \/ LogQueryOk
  \/ LogQueryFail
  \/ LogCreateOk
  \/ LogCreateFail

SpecLog == InitLog /\ [][NextLog]_vars

(***************************************************************************)
(* Properties of the log command.                                          *)
(***************************************************************************)
EventIdx == 1..Len(events)
IsCreateCall(e) == e.op \in {"create", "create_fail"}
HasEvent(op, d) == \E i \in EventIdx : events[i].op = op /\ events[i].day = d
CreatedDays == {events[i].day : i \in {j \in EventIdx : events[j].op = "create"}}
RangeEnd == DateRangeEnd(date, until_date)

\* C1: a create call is issued for a day only right after that day's query,
\* and exactly when the hours the query returned plus the new hours do not
\* exceed max_day_hours; over the cap the day gets no create call and the loop
\* moves to the next day; no day that got an entry holds more than the cap.
C1_CapEnforced ==
  /\ \A i \in EventIdx : IsCreateCall(events[i]) =>
        /\ i > 1
        /\ events[i-1].op = "query"
        /\ events[i-1].day = events[i].day
        /\ events[i-1].seen + hours <= max_day_hours
  /\ \A i \in EventIdx : events[i].op = "query" =>
        IF events[i].seen + hours <= max_day_hours
        THEN IF i = Len(events)
             THEN lpc = "create" /\ entry_date = events[i].day
             ELSE IsCreateCall(events[i+1]) /\ events[i+1].day = events[i].day
        ELSE /\ i < Len(events)
             /\ events[i+1].op = "skip_cap"
             /\ events[i+1].day = events[i].day
             /\ ~HasEvent("create", events[i].day)
             /\ ~HasEvent("create_fail", events[i].day)
             /\ (i + 1 = Len(events) =>
                   lpc # "failed" /\ entry_date = events[i].day + 1)
  /\ \A d \in CreatedDays : logged[d] <= max_day_hours

C1_Witness ==
  /\ \E i \in EventIdx : events[i].op = "skip_cap" /\ events[i].seen = 6
                         /\ hours = 4 /\ max_day_hours = 8
  /\ \E i \in EventIdx : events[i].op = "create" /\ events[i].seen + hours = max_day_hours
  /\ lpc = "done"

\* C2: a yielded day is weekend-skipped (no query, no create) exactly when
\* --weekdays is off, --until-date was given and the day is a Saturday or a
\* Sunday; without --until-date the start date is never skipped.  Monday to
\* the next Monday, weekends off, no prior hours, hours 4, cap 8: six entries
\* and none on the two weekend days.
C2_WeekendFilter ==
  /\ \A k \in 1..Len(yielded) :
        LET d == yielded[k] IN
        /\ HasEvent("skip_weekend", d) <=>
             (~weekdays /\ until_date # None /\ isoweekday(d) > 5)
        /\ HasEvent("skip_weekend", d) =>
             \A i \in EventIdx : events[i].day = d => events[i].op = "skip_weekend"
  /\ until_date = None => \A i \in EventIdx : events[i].op # "skip_weekend"
  /\ ( /\ lpc = "done" /\ isoweekday(date) = 1 /\ until_date = Some(date + 7)
       /\ ~weekdays /\ hours = 4 /\ max_day_hours = 8
       /\ \A i \in EventIdx : events[i].op = "query" => events[i].seen = 0
       /\ \A i \in EventIdx : events[i].op # "create_fail" )
     => /\ Cardinality(CreatedDays) = 6
        /\ CreatedDays = {date + k : k \in {0, 1, 2, 3, 4, 7}}

C2_Witness ==
  /\ lpc = "done" /\ date = 1 /\ until_date = Some(8) /\ ~weekdays
  /\ hours = 4 /\ max_day_hours = 8
  /\ Cardinality(CreatedDays) = 6
  /\ HasEvent("skip_weekend", 6) /\ HasEvent("skip_weekend", 7)

IsPrefix(s, t) == Len(s) <= Len(t) /\ \A i \in 1..Len(s) : s[i] = t[i]
HasFailed == \E i \in EventIdx : events[i].op \in {"query_fail", "create_fail"}

\* C3: what was created stays created (the trace of remote calls only grows
\* and no day's logged hours shrink), and once a query or a create has failed
\* no further remote call is made: trace and tracker stay as they are.
C3_FailFast ==
  [][ /\ IsPrefix(events, events')
      /\ \A d \in Days : logged'[d] >= logged[d]
      /\ HasFailed => (events' = events /\ logged' = logged) ]_vars

C3_Witness ==
  /\ lpc = "failed"
  /\ events[Len(events)].op = "create_fail"
  /\ \E i \in EventIdx : events[i].op = "create"
  /\ entry_date < RangeEnd

\* C4: date_range yields start, start+1, ..., end, each once and ascending
\* (just start when end is None), and log issues at most one create per day,
\* in ascending date order.
C4_DateRange ==
  /\ \A k \in 1..Len(yielded) : yielded[k] = date + k - 1 /\ yielded[k] <= RangeEnd
  /\ lpc = "done" =>
        /\ Len(yielded) = (IF RangeEnd >= date THEN RangeEnd - date + 1 ELSE 0)
        /\ until_date = None => yielded = <<date>>
  /\ \A i, j \in EventIdx :
        (i < j /\ IsCreateCall(events[i]) /\ IsCreateCall(events[j]))
           => events[i].day < events[j].day

C4_Witness ==
  /\ lpc = "done"
  /\ Len(yielded) >= 3
  /\ yielded[1] = date /\ yielded[Len(yielded)] = RangeEnd
  /\ Cardinality(CreatedDays) >= 2


InitResolve ==
  /\ LogIdle /\ CompleteIdle /\ IdMatchIdle
  /\ rresult = NoneRes /\ rpc = "start"
  /\ \/ /\ rkind \in Kinds \ {"activity"}
        /\ rtoken \in Tokens
        /\ remote_ids \in SUBSET (1..MaxId)
        /\ rctx = NoCtx /\ global_activities = <<>> /\ project_activities = <<>>
     \/ /\ rkind = "activity"
        /\ rtoken \in Tokens
        /\ remote_ids = {}
        /\ rctx \in Ctxs
        /\ global_activities \in ActivityLists
        /\ project_activities \in SubLists(global_activities)
     \/ /\ rkind = "activity"
        /\ rtoken \in {Des, Lower(Design)}
        /\ remote_ids = {}
        /\ rctx \in {NoCtx, Ctx(TRUE, Some(1), FALSE, None)}
        /\ global_activities = ScenarioActivities
        /\ project_activities = ScenarioActivities

(***************************************************************************)
(* click calls param.type.convert(value, param, ctx).                      *)
(***************************************************************************)
Resolve ==
  /\ rpc = "start"
  /\ rresult' = Convert(rkind, rtoken, rctx, remote_ids,
                        project_activities, global_activities)
  /\ rpc' = "done"
  /\ UNCHANGED <<notRes, rkind, rtoken, rctx, remote_ids,
                 global_activities, project_activities>>

NextResolve == Resolve

SpecResolve == InitResolve /\ [][NextResolve]_vars

(***************************************************************************)
(* Properties of exact resolution.  The token's reading is restated here   *)
(* on its own, apart from the operators that model the code.               *)
(***************************************************************************)
RECURSIVE Trailing(_)
Trailing(t) ==
  IF t = <<>> \/ t[Len(t)] = ":" THEN <<>>
  ELSE Append(Trailing(SubSeq(t, 1, Len(t) - 1)), t[Len(t)])

RECURSIVE Decimal(_)
Decimal(t) ==
  IF t = <<>> THEN 0 ELSE 10 * Decimal(SubSeq(t, 1, Len(t) - 1)) + DigitValue(t[Len(t)])

IsNumber(t) == t # <<>> /\ \A i \in 1..Len(t) : t[i] \in Digits
FoldCase(t) == IF t = <<>> THEN <<>> ELSE [i \in 1..Len(t) |-> IF t[i] = "D" THEN "d" ELSE t[i]]

CtxResolved ==
  /\ rctx.has_project => rctx.project # None
  /\ (~rctx.has_project /\ rctx.has_issue) => rctx.issue # None
InScope ==
  IF rctx.has_project \/ rctx.has_issue THEN project_activities ELSE global_activities
Resolved == rpc = "done"

\* C5: a numeric token t, 0 included, resolves to the resource whose id is t,
\* or fails with a not-found error when the tracker has none; nothing else
\* (no None, no list, no other resource) comes back.
C5_NumericExact ==
  (Resolved /\ IsNumber(rtoken) /\ CtxResolved) =>
     LET n == Decimal(rtoken) IN
     IF rkind = "activity"
     THEN LET hits == {i \in 1..Len(InScope) : InScope[i].id = n} IN
          IF hits = {} THEN rresult = Fail("Activity not found")
          ELSE rresult.tag = "activity" /\ rresult.id = n
     ELSE IF n \in remote_ids THEN rresult = Resource(rkind, n)
          ELSE rresult = Fail(KindLabel(rkind) \o " not found")

NumberTokens == UNION {[1..n -> Chars \cap Digits] : n \in 1..MaxTokenLen}

\* C6: a token whose segment after the last ':' is a number resolves by that
\* number alone: its outcome is the outcome of every bare number with the
\* same value, so any two tokens with the same trailing id, whatever their
\* labels, have the same outcome.
C6_LabelIgnored ==
  (Resolved /\ IsNumber(Trailing(rtoken))) =>
     \A t \in NumberTokens :
        Decimal(t) = Decimal(Trailing(rtoken))
           => Convert(rkind, t, rctx, remote_ids,
                      project_activities, global_activities) = rresult

\* The label d is the name of activity 2, the id after the colon wins.
C6_Witness ==
  /\ Resolved /\ rkind = "activity" /\ rtoken = <<"d", ":", "1">>
  /\ rresult.tag = "activity" /\ rresult.id = 1
  /\ \E i \in 1..Len(InScope) : InScope[i].id = 2 /\ InScope[i].name = <<"d">>

MaxArgs == 3
MaxNth == 6

T_unknown == <<"n", "o", "p", "e">>
ArgTokens == {<<"1">>, <<"d", ":", "2">>, <<"0">>, <<"p", "r", "o", "j", "1">>, <<"-", "-", "d", "a", "t", "e">>}
TypedCommands == {T_log, T_projects, T_overview, T_unknown}
TypedArgs ==
  {<<>>} \cup
  {<<c>> \o t : c \in TypedCommands, t \in UNION {[1..k -> ArgTokens] : k \in 0..MaxArgs}}
ScenarioArgs == <<T_log, <<"p", "r", "o", "j", "1">>, <<"-", "-", "d", "a", "t", "e">>, <<"2", "0", "2", "4", "-", "0", "1", "-", "0", "1">>, <<"i", "s", "s">>>>

\* what an earlier invocation may have left fresh in the file cache
CacheStates ==
  SUBSET {IssuesKey({"project_id"}, None, Some(1)),
          IssuesKey({"subject", "project_id"}, None, Some(1))}

InitComplete ==
  /\ LogIdle /\ ResolveIdle /\ IdMatchIdle
  /\ \/ /\ args \in TypedArgs
        /\ \/ options = FALSE /\ nth \in {None} \cup {Some(k) : k \in 0..MaxNth}
           \/ options = TRUE /\ nth = None /\ Len(args) <= 2
     \/ args = ScenarioArgs /\ options = FALSE /\ nth = Some(5)
  /\ fileCache \in CacheStates
  /\ remote_calls = <<>> /\ outcome = NoOutcome /\ printed = <<>>
  /\ cpc = "start"

\* The orders in which iterating a set may yield its members (lines 525,
\* 535, 589-593): one of them, decided by the hashes of the members.
RECURSIVE SetOrders(_)
SetOrders(S) ==
  IF S = {} THEN {<<>>}
  ELSE UNION {{<<x>> \o rest : rest \in SetOrders(S \ {x})} : x \in S}

Complete ==
  /\ cpc = "start"
  /\ LET ran == RunComplete(args, options, nth, fileCache) IN
       /\ outcome' = ran.outcome
       /\ fileCache' = ran.cache
       /\ remote_calls' = remote_calls \o ran.calls
       /\ printed' \in SetOrders(ran.outcome.objs)
  /\ cpc' = "done"
  /\ UNCHANGED <<notComp, args, options, nth>>

NextComplete == Complete

SpecComplete == InitComplete /\ [][NextComplete]_vars

(***************************************************************************)
(* Properties of completion.                                               *)
(***************************************************************************)
CallsOf(op) == {i \in 1..Len(remote_calls) : remote_calls[i].op = op}
IssueListingsOf(pid) ==
  {i \in CallsOf("issue.filter") : remote_calls[i].key.project_id = Some(pid)}

\* C8: within one invocation every collection kind (all projects, the open
\* issues of a given project) is listed from the tracker at most once; in
\* particular one issue-slot completion makes a single remote issue listing.
C8_FetchOnce ==
  cpc = "done" =>
    /\ Cardinality(CallsOf("project.all")) <= 1
    /\ \A pid \in ProjectIds : Cardinality(IssueListingsOf(pid)) <= 1

\* C9: the completion of a project, issue or activity slot never fails,
\* whatever the partial token and whether or not the earlier project token
\* is present and resolvable: it ends by printing a candidate list.
C9_EnumerationNeverFails ==
  (cpc = "done" /\ outcome.param \in {"project", "issue", "activity"}) =>
    outcome.tag = "print"

\* The positional tokens among the typed ones, as the claim counts them: an
\* option token and the value tokens of its declared arity are left out.
RECURSIVE PositionalsTyped(_, _)
PositionalsTyped(cmd, tokens) ==
  IF tokens = <<>> THEN 0
  ELSE IF StartsWithDash(Head(tokens))
  THEN LET nargs == OptionNargs(cmd, StrKey(Head(tokens)))
           used == 1 + (IF nargs = None THEN 0 ELSE nargs[1])
       IN IF used >= Len(tokens) THEN 0
          ELSE PositionalsTyped(cmd, SubSeq(tokens, used + 1, Len(tokens)))
  ELSE 1 + PositionalsTyped(cmd, Tail(tokens))

\* The slot is a positional one: the options typed before it are options of
\* the command, and it is not a value that one of them consumes.
RECURSIVE SlotIsPositional(_, _)
SlotIsPositional(cmd, tokens) ==
  IF tokens = <<>> THEN TRUE
  ELSE IF StartsWithDash(Head(tokens))
  THEN LET nargs == OptionNargs(cmd, StrKey(Head(tokens)))
           used == 1 + (IF nargs = None THEN 0 ELSE nargs[1])
       IN IF nargs = None \/ used > Len(tokens) THEN FALSE
          ELSE SlotIsPositional(cmd, SubSeq(tokens, used + 1, Len(tokens)))
  ELSE SlotIsPositional(cmd, Tail(tokens))

\* C10: completing slot nth of a subcommand selects the k-th declared
\* positional, k being the number of positional tokens typed before the slot
\* (options and the values they consume, the program name and the subcommand
\* name are not counted); for log proj1 --date 2024-01-01 iss the slot of
\* the last token is the issue.
C10_PositionalIndex ==
  (/\ cpc = "done" /\ ~options /\ nth # None
   /\ args # <<>> /\ args[1] \in CommandNames
   /\ nth[1] >= 2 /\ nth[1] <= Len(args) + 1
   /\ SlotIsPositional(args[1], SubSeq(args, 2, nth[1] - 1))
   /\ (nth[1] <= Len(args) => ~StartsWithDash(args[nth[1]]))) =>
    LET cmd == args[1]
        k == PositionalsTyped(cmd, SubSeq(args, 2, nth[1] - 1))
    IN k < Len(Params(cmd)) => outcome.param = Params(cmd)[k + 1].name

\* C11: complete ends in one of two ways: it prints token:description
\* records, or, when completion cannot be produced (nth missing, nth outside
\* the declared positionals, an unknown subcommand in args[0]), it exits with
\* a non-zero status and prints nothing; no run ends with status 0 and no
\* output.
C11_PrintOrFail ==
  cpc = "done" =>
    /\ outcome.tag \in {"print", "exit1", "raise"}
    /\ (args # <<>> /\ args[1] \notin CommandNames) => outcome.tag = "exit1"
    /\ (args # <<>> /\ args[1] \in CommandNames /\ ~options /\ nth = None) =>
         outcome.tag = "exit1"

\* C12: an activity token is matched only against the activities of the
\* resolved project (or of the resolved issue's project), the global list is
\* used only when neither is resolved, and a project argument that resolved
\* to no project does not make the activity resolution fail.
C12_ParentScope ==
  (Resolved /\ rkind = "activity") =>
    LET project_resolved == rctx.has_project /\ rctx.project # None
        issue_resolved == rctx.has_issue /\ rctx.issue # None
        scope == IF project_resolved \/ issue_resolved
                 THEN project_activities ELSE global_activities
    IN /\ rresult.tag # "raise"
       /\ rresult.tag = "activity" =>
            \E i \in 1..Len(scope) : scope[i] = rresult.items[1]

(***************************************************************************)
(* One call of _id_match (lines 225-236) on a list of resources and a      *)
(* prefix.                                                                 *)
(***************************************************************************)
MaxResources == 3
MaxPrefixLen == 3

IdPool == {1, 5, 12, 120}
PrefixChars == {"0", "1", "2", "d", ":"}
Prefixes ==
  {None} \cup {Some(t) : t \in UNION {[1..n -> PrefixChars] : n \in 0..MaxPrefixLen}}
ResourceLists ==
  {l \in UNION {[1..n -> {Item(i, <<"d">>) : i \in IdPool}] : n \in 0..MaxResources} :
     \A i, j \in 1..Len(l) : i # j => l[i].id # l[j].id}

InitIdMatch ==
  /\ LogIdle /\ ResolveIdle /\ CompleteIdle
  /\ id_resources \in ResourceLists
  /\ id_prefix \in Prefixes
  /\ id_result = <<>> /\ id_pc = "start"

CallIdMatch ==
  /\ id_pc = "start"
  /\ id_result' = IdMatch(id_resources, id_prefix)
  /\ id_pc' = "done"
  /\ UNCHANGED <<notId, id_resources, id_prefix>>

NextIdMatch == CallIdMatch

SpecIdMatch == InitIdMatch /\ [][NextIdMatch]_vars

\* The id, written in decimal, starts with the decimal digits of v.
LeadingDigits(id, v) ==
  IF v = 0 THEN id = 0 ELSE \E k \in 0..3 : id \div (10 ^ k) = v

Ids(list) == [i \in 1..Len(list) |-> list[i].id]

\* C13: _id_match returns exactly the resources whose decimal id starts with
\* the numeric prefix, in ascending order of id, and the empty list when the
\* prefix is absent, empty or not an integer; for ids [12, 120, 5] and prefix
\* "12" it returns [12, 120].
C13_IdPrefixMatch ==
  id_pc = "done" =>
    /\ (id_prefix = None \/ ~IsNumber(id_prefix[1])) => id_result = <<>>
    /\ (id_prefix # None /\ IsNumber(id_prefix[1])) =>
         /\ {id_result[i] : i \in 1..Len(id_result)} =
              {id_resources[i] : i \in
                 {j \in 1..Len(id_resources) :
                    LeadingDigits(id_resources[j].id, Decimal(id_prefix[1]))}}
         /\ \A i, j \in 1..Len(id_result) : i < j => id_result[i].id < id_result[j].id
    /\ (Ids(id_resources) = <<12, 120, 5>> /\ id_prefix = Some(<<"1", "2">>)) =>
         Ids(id_result) = <<12, 120>>

C13_Witness ==
  /\ id_pc = "done"
  /\ Ids(id_resources) = <<12, 120, 5>> /\ id_prefix = Some(<<"1", "2">>)
  /\ Ids(id_result) = <<12, 120>>

(***************************************************************************)
(* Properties of the order and of the replay of completion.                *)
(***************************************************************************)
\* the token being completed, empty when nothing of it is typed yet
PartialToken ==
  IF nth # None /\ nth[1] >= 1 /\ nth[1] <= Len(args) THEN args[nth[1]] ELSE <<>>

IsIdPrefixMatch(obj) ==
  IsNumber(PartialToken) /\ LeadingDigits(obj.id, Decimal(PartialToken))

\* C14: the candidates printed for a project or issue slot are the id-prefix
\* matches followed by the name matches: no id is printed twice, every
\* id-prefix match comes before every candidate that is not one, and the
\* id-prefix matches are in ascending order of id.
C14_IdMatchesFirst ==
  (cpc = "done" /\ outcome.tag = "print" /\ outcome.param \in {"project", "issue"}) =>
    /\ \A i, j \in 1..Len(printed) : i # j => printed[i].id # printed[j].id
    /\ \A i, j \in 1..Len(printed) :
         (i < j /\ IsIdPrefixMatch(printed[j])) => IsIdPrefixMatch(printed[i])
    /\ \A i, j \in 1..Len(printed) :
         (i < j /\ IsIdPrefixMatch(printed[i]) /\ IsIdPrefixMatch(printed[j])) =>
           printed[i].id < printed[j].id

\* the options of the command among the tokens the replay reads
ReplayedOptions ==
  IF nth = None \/ args = <<>> THEN {}
  ELSE LET tokens == ReplayArgs(args, nth[1]) IN
       {o \in Options(args[1]) :
          \E i \in 1..Len(tokens) : tokens[i] \in o.opts}

\* C15: in the replay an option of arity greater than one, or with a
\* secondary form, ends completion with UnsupportedOption; an option of arity
\* 0 or 1 is skipped with its declared number of value tokens and the replay
\* goes on to select the slot.
C15_OptionSkipped ==
  (/\ cpc = "done" /\ ~options /\ nth # None
   /\ args # <<>> /\ args[1] \in CommandNames
   /\ nth[1] >= 2 /\ nth[1] <= Len(args) + 1
   /\ SlotIsPositional(args[1], SubSeq(args, 2, nth[1] - 1))
   /\ ReplayedOptions # {}) =>
    IF \E o \in ReplayedOptions : o.nargs > 1 \/ o.secondary
    THEN outcome.tag = "raise" /\ outcome.exc = "UnsupportedOption"
    ELSE outcome.exc # "KeyError"

====
